---- MODULE Spec2Model ----
(***************************************************************************)
(* Model of sequelize-file (src/unnamed/part_001, the SequelizeField        *)
(* class): the lifecycle of one attachment field of one record.             *)
(*                                                                          *)
(* Strings are sequences of one-character strings, so that the regular      *)
(* expressions of the source act on them as they act on JavaScript          *)
(* strings.  The empty sequence stands for null / undefined where a path    *)
(* is expected (the source only ever tests such values for truthiness).     *)
(***************************************************************************)
EXTENDS Integers, Sequences, FiniteSets, TLC

(***************************************************************************)
(* Bounds of the model.                                                     *)
(***************************************************************************)
\* number of create / update / destroy operations the caller performs
MaxOps == 2

\* length of the size specs given to parseSize
MaxSizeLen == 4

(***************************************************************************)
(* String helpers.                                                          *)
(***************************************************************************)
Null == <<>>

Max(S) == CHOOSE x \in S : \A y \in S : y <= x

Prefix(s, n) == SubSeq(s, 1, n)

Suffix(s, n) == SubSeq(s, n, Len(s))

StartsWith(s, p) == Len(p) <= Len(s) /\ Prefix(s, Len(p)) = p

\* positions of character c in s
Positions(s, c) == { i \in 1..Len(s) : s[i] = c }

(***************************************************************************)
(* Pure path functions of the source.                                       *)
(***************************************************************************)

\* path.replace(/(.+)(\..+)$/, '$1_' + size + '$2'): the greedy (.+) ends
\* before the last "." that has at least one character on either side; with
\* no such "." nothing is replaced.
pathWithSize(path, size) ==
  LET dots == { i \in Positions(path, ".") : 1 < i /\ i < Len(path) }
  IN  IF dots = {} THEN path
      ELSE LET d == Max(dots)
           IN  Prefix(path, d - 1) \o <<"_">> \o size \o Suffix(path, d)

\* url.match(/\/([^\/]+)$/): the run after the last "/", which must exist
\* and be non-empty; otherwise match() is null and [1] throws a TypeError.
nameFromUrlMatches(url) ==
  Positions(url, "/") # {} /\ Max(Positions(url, "/")) < Len(url)

nameFromUrl(url) == Suffix(url, Max(Positions(url, "/")) + 1)

\* file.split('.'): ext is the last piece, name the other pieces joined
\* by "."; a name without "." is all extension.
getFileInfo(file) ==
  LET dots == Positions(file, ".")
  IN  IF dots = {} THEN <<Null, file>>
      ELSE <<Prefix(file, Max(dots) - 1), Suffix(file, Max(dots) + 1)>>

\* path.match(/(.+)(\/.+)$/)[1] in download: the directory of the target
dirName(path) ==
  LET sl == { i \in Positions(path, "/") : 1 < i /\ i < Len(path) }
  IN  Prefix(path, Max(sl) - 1)

\* the digits that occur in the size specs examined (\d)
Digits == {"0", "3", "4", "6"}

\* length of the run of digits of s that starts at position i
DigitRun(s, i) ==
  LET stops == { j \in i..Len(s) : s[j] \notin Digits }
  IN  IF stops = {} THEN Len(s) + 1 - i
      ELSE (CHOOSE j \in stops : \A k \in stops : j <= k) - i

\* mutant of parseSize: the "x" is not consumed, the height must follow the
\* width at once
parseSizeWithoutX(str) ==
  LET w == DigitRun(str, 1)
  IN  [width |-> SubSeq(str, 1, w), height |-> Null,
       options |-> SubSeq(str, w + 1, Len(str))]

\* parseSize: String(str).match(/(\d+)?x?(\d+)?(.+)?/) at index 0, where
\* every part is optional and greedy, so the match never fails; an
\* unmatched group is undefined (Null)
parseSize(str) ==
  LET w == DigitRun(str, 1)
      x == IF w + 1 <= Len(str) /\ str[w + 1] = "x" THEN 1 ELSE 0
      h == DigitRun(str, w + x + 1)
  IN  [width |-> SubSeq(str, 1, w),
       height |-> SubSeq(str, w + x + 1, w + x + h),
       options |-> SubSeq(str, w + x + h + 1, Len(str))]

(***************************************************************************)
(* JavaScript values held by the virtual attribute, MIME types, errors.     *)
(***************************************************************************)
Undefined == [t |-> "undefined"]

JSNull == [t |-> "null"]

Str(v) == [t |-> "string", v |-> v]

\* a multer-style descriptor { path, mimetype }
FileObj(path, mimetype) == [t |-> "file", path |-> path, mimetype |-> mimetype]

\* { updated: true }
Marker == [t |-> "object", updated |-> TRUE]

\* any value of another shape, e.g. a number
Other == [t |-> "number"]

\* a boolean
Bool == [t |-> "boolean"]

\* an object with a path and no mimetype, and no truthy updated
Incomplete == [t |-> "object", updated |-> FALSE]

\* MIME types are sequences of words; a matcher RegExp is the set of its
\* literal alternatives: /image/ is {"image"}, /image|pdf/ is {"image","pdf"}
PNG == <<"image", "/", "png">>

JS == <<"application", "/", "javascript">>

PDF == <<"application", "/", "pdf">>

HTML == <<"text", "/", "html">>

\* new RegExp(matcher).test(subject)
RegExpTest(alts, subject) == \E i \in 1..Len(subject) : subject[i] \in alts

\* new ValidationErrorItem(message, null, attribute) in a ValidationError
ValidationError(message, attribute) ==
  [name |-> "SequelizeValidationError", message |-> message,
   errors |-> <<[message |-> message, type |-> Null, path |-> attribute]>>]

\* an Error object raised by fs, mv, mkdirp, request or gm
IOError(code) == [name |-> "Error", message |-> <<code>>, errors |-> <<>>]

\* a promise rejected with a plain string
StringRejection(message) == [name |-> "string", message |-> message, errors |-> <<>>]

\* the TypeError of reading a property of null / undefined
TypeError == [name |-> "TypeError", message |-> <<"TypeError">>, errors |-> <<>>]

DEFAULT_MESSAGE == <<"Wrong file's MIME type">>

DEFAULT_QUALITY == 100

(***************************************************************************)
(* Configuration: the constructor and addTo.                                *)
(***************************************************************************)
\* a value handed to the constructor, with the type typeOf / type-check
\* sees: "String", "Number", "Boolean", "RegExp", "Object", "Undefined", "Null"
Given(type, v) == [type |-> type, v |-> v]

NotGiven == Given("Undefined", Null)

\* validateType: typeCheck('A | B', entity), the type being one of the
\* alternatives
validateType(entity, types) == entity.type \in types

\* the words in which the text "image" occurs
WordsWithImage == {"image", "diskimage"}

\* /image/.test(mimetype) on the text of the matcher: whether "image"
\* occurs somewhere in its source
mentionsImage(mimetype) == mimetype.v \cap WordsWithImage # {}

\* crop || sizes
truthy(entity) ==
  \/ entity.type \in {"Object", "Number"}
  \/ entity.type = "Boolean" /\ entity.v = <<"true">>

\* the type checks of the constructor, for the options examined
optionsValidated(o) ==
  /\ validateType(o.virtualAttribute, {"String"})
  /\ validateType(o.mimetype, {"String", "RegExp"})
  /\ validateType(o.crop, {"Boolean", "Undefined"})
  /\ validateType(o.cleanup, {"Boolean", "Undefined"})
  /\ validateType(o.folderKey, {"String", "Undefined", "Null"})
  /\ validateType(o.sizes, {"Object", "String", "Undefined"})

\* whether new SequelizeField(o) throws
constructorThrows(o) ==
  \/ ~optionsValidated(o)
  \/ (truthy(o.crop) \/ truthy(o.sizes)) /\ ~mentionsImage(o.mimetype)

\* pluralize(name.toLowerCase()) on the lower-case names of the model
pluralize(name) == name \o <<"s">>

\* the constructor: defaults of the private props
SequelizeField(options) ==
  LET PUBLIC == IF options.publicPath = Null THEN <<"p">> ELSE options.publicPath
  IN  [VIRTUAL_ATTRIBUTE_NAME |-> options.virtualAttribute,
       PATH_ATTRIBUTE_NAME |-> options.virtualAttribute \o <<"P">>,
       MIMETYPE        |-> options.mimetype,
       SIZES           |-> options.sizes,
       CLEANUP_IS_ON   |-> options.cleanup,
       CROP_ATTRIBUTE_NAME |-> options.virtualAttribute \o <<"C">>,
       CROP_IS_ON      |-> options.crop,
       PUBLIC_PATH     |-> PUBLIC,
       BASE_PATH       |-> IF options.basepath = Null THEN PUBLIC \o <<"/", "u">>
                           ELSE options.basepath,
       FOLDER_KEY      |-> options.folderKey,
       GROUP_BY_ATTRIBUTE |-> options.groupByAttribute,
       WRONG_TYPE_MESSAGE |-> IF options.wrongTypeMessage = Null
                              THEN DEFAULT_MESSAGE ELSE options.wrongTypeMessage]

\* _addHooksTo: the model folder computed at registration
ModelPath(c, modelName) ==
  c.BASE_PATH \o <<"/">> \o pluralize(modelName) \o
    (IF c.GROUP_BY_ATTRIBUTE
     THEN <<"/">> \o pluralize(c.VIRTUAL_ATTRIBUTE_NAME) ELSE <<>>)

addTo(c, modelName) ==
  [f \in DOMAIN c \cup {"MODEL_PATH"} |->
     IF f = "MODEL_PATH" THEN ModelPath(c, modelName) ELSE c[f]]

\* size descriptors, in the order for..in visits them
OneSize == << [name |-> <<"s">>, t |-> "number"] >>

PlainSizes == << [name |-> <<"s">>, t |-> "number"],
                 [name |-> <<"b">>, t |-> "string"] >>

ObjectSizes == << [name |-> <<"s">>, t |-> "number"],
                  [name |-> <<"b">>, t |-> "object"] >>

ImageMatcher == {"image"}

MixedMatcher == {"image", "pdf"}

DefaultFolderKey == <<"i", "d">>

Opt(mimetype, sizes, cleanup, folderKey) ==
  [virtualAttribute |-> <<"f">>, mimetype |-> mimetype, sizes |-> sizes,
   cleanup |-> cleanup, crop |-> FALSE, folderKey |-> folderKey,
   groupByAttribute |-> TRUE,
   basepath |-> Null, publicPath |-> Null, wrongTypeMessage |-> Null]

\* the configurations explored
Options ==
  { Opt(ImageMatcher, Null, FALSE, DefaultFolderKey),
    Opt(ImageMatcher, Null, TRUE, DefaultFolderKey),
    Opt(ImageMatcher, PlainSizes, FALSE, DefaultFolderKey),
    Opt(ImageMatcher, OneSize, TRUE, DefaultFolderKey),
    Opt(MixedMatcher, ObjectSizes, FALSE, DefaultFolderKey),
    Opt(MixedMatcher, ObjectSizes, TRUE, DefaultFolderKey),
    Opt(ImageMatcher, Null, TRUE, Null) }

ModelName == <<"m">>

\* the value of the folder key attribute of the record
InstanceId == <<"1">>

\* Math.random().toString(36).substr(2, 5): one symbol per random run
Hashes == {<<"h">>, <<"k">>}

(***************************************************************************)
(* State.                                                                   *)
(***************************************************************************)
VARIABLES
  cfg,          \* the field configuration after addTo(Model)
  record,       \* "none" | "live" | "destroyed": the database row
  dbPath,       \* the persisted path attribute of the row
  file,         \* the instance's data value of the virtual attribute
  pathAttr,     \* the instance's data value of the path attribute
  disk,         \* the files on disk: path -> content
  dirs,         \* the directories created by mkdirp
  unlinks,      \* paths of the fs.unlink calls in flight (fire-and-forget)
  writes,       \* gm write calls in flight
  pc,           \* position of the hook's promise chain
  cur,          \* the file record travelling down the chain
  afterCreate,  \* the operation's hook is the afterCreate hook
  nested,       \* the running hook is the one of the secondary update
  outerCur,     \* the file of the attach that issued the secondary update
  result,       \* how the hook's promise settled
  ops,          \* number of operations the caller has started
  \* history, for stating the properties
  at,           \* the step at which the hook settled
  started,      \* moves / downloads started in the current operation
  hooks,        \* _setFile invocations in the current operation
  issued,       \* paths whose unlink the current operation issued
  placed,       \* the current operation put its file at the planned path
  written,      \* derivative names the current operation has written
  updates,      \* secondary updates the current operation completed
  pathBefore,   \* the path attribute when the operation started
  stored,       \* operation whose file a resolved attach stored (0: none)
  storedPaths,  \* every path a resolved attach has left in the path attribute
  replaced,     \* stored files replaced by a later resolved attach
  allOk,        \* no hook has rejected so far
  unlinkErr,    \* some unlink failed with an error other than ENOENT
  options,      \* the save options the hook of the operation was given
  updateArgs,   \* the arguments of the secondary update the attach issued
  lab           \* the call under examination, for the pure functions

\* the state of the program proper
program == <<cfg, record, dbPath, file, pathAttr, disk, dirs, unlinks, writes,
             pc, cur, afterCreate, nested, outerCur, result, ops, at, started,
             hooks, issued, placed, written, updates, pathBefore, stored,
             storedPaths, replaced, allOk, unlinkErr, options, updateArgs>>

vars == <<cfg, record, dbPath, file, pathAttr, disk, dirs, unlinks, writes,
          pc, cur, afterCreate, nested, outerCur, result, ops, at, started,
          hooks, issued, placed, written, updates, pathBefore, stored,
          storedPaths, replaced, allOk, unlinkErr, options, updateArgs, lab>>

OK == [name |-> "ok", message |-> <<>>, errors |-> <<>>]

Pending == [name |-> "pending", message |-> <<>>, errors |-> <<>>]

NoFile == [path |-> Null, mimetype |-> Null, src |-> Null]

\* save options: none given, or a transaction
NoOptions == [transaction |-> Null]

SaveOptions == {NoOptions, [transaction |-> <<"t">>]}

\* no secondary update was issued
NoUpdate == [path |-> Null, options |-> NoOptions]

\* content of a file: the operation that brought it, and the derivative
\* name (Null for an original)
Content(op, size) == [op |-> op, size |-> size]

Put(d, path, content) == (path :> content) @@ d

Remove(d, path) == [q \in DOMAIN d \ {path} |-> d[q]]

(***************************************************************************)
(* Inputs of the caller.                                                    *)
(***************************************************************************)
TMP == <<"t">>

NameA == <<"a", ".", "g">>

NameB == <<"b", ".", "g">>

Staged(name) == TMP \o <<"/">> \o name

Url(name) == <<"h", ":", "/", "/", "x", "/">> \o name

\* "htt/ooooooooooo" of the tests: not a URI, but with a last segment
INVALID_URL == <<"h", "/", "o">>

\* a string with no "/" at all, and a URL ending in "/"
NO_SLASH == <<"o">>

TRAILING_SLASH == Url(<<>>)

LocalInputs == { FileObj(Staged(NameA), PNG), FileObj(Staged(NameA), JS),
                 FileObj(Staged(NameA), PDF) }

UrlInputs == { Str(Url(NameA)), Str(Url(NameB)), Str(INVALID_URL),
               Str(NO_SLASH), Str(TRAILING_SLASH) }

Inputs == LocalInputs \cup UrlInputs \cup {JSNull, Other, Bool, Incomplete}

\* request parses the URI before any network call
ParsesAsUri(url) == StartsWith(url, <<"h", ":", "/", "/">>)

\* what the remote server may answer to HEAD
Statuses == {199, 200, 399, 400, 404}

StatusMessage(code) ==
  IF code = 404 THEN "Not Found" ELSE IF code = 400 THEN "Bad Request" ELSE "OK"

StatusText(code) ==
  CASE code = 199 -> "199" [] code = 200 -> "200" [] code = 399 -> "399"
    [] code = 400 -> "400" [] code = 404 -> "404"

ContentTypes == {PNG, HTML}

(***************************************************************************)
(* Path planning and the helpers of the hooks.                              *)
(***************************************************************************)
\* mutant of getInstancePathFor: the key segment depends on the folder key
\* alone
getInstancePathByKeyOnly(c, key) ==
  IF c.FOLDER_KEY = Null THEN c.MODEL_PATH
  ELSE c.MODEL_PATH \o <<"/">> \o key

\* _getInstancePath for an instance whose folder key attribute holds key
getInstancePathFor(c, key) ==
  IF c.FOLDER_KEY = Null \/ ~c.GROUP_BY_ATTRIBUTE THEN c.MODEL_PATH
  ELSE c.MODEL_PATH \o <<"/">> \o key

\* _getInstancePath; the record's folder key value is InstanceId
getInstancePath(c) == getInstancePathFor(c, InstanceId)

\* mutant of getFileNameForMovingFor: the file name is never suffixed
getFileNameUnsuffixed(c, key, tmp, hash) ==
  getInstancePathFor(c, key) \o <<"/">> \o nameFromUrl(tmp)

\* _getFileNameForMoving, with the random run it draws
getFileNameForMovingFor(c, key, tmp, hash) ==
  LET fileName == nameFromUrl(tmp)
      info == getFileInfo(fileName)
  IN  getInstancePathFor(c, key) \o <<"/">> \o
        (IF c.FOLDER_KEY = Null \/ ~c.GROUP_BY_ATTRIBUTE
         THEN info[1] \o <<"_">> \o hash \o <<".">> \o info[2]
         ELSE fileName)

\* _getFileNameForMoving for the record of the model
getFileNameForMoving(c, tmp, hash) ==
  getFileNameForMovingFor(c, InstanceId, tmp, hash)

\* _publicPath: path.replace(new RegExp('^' + escape(PUBLIC_PATH)), '')
publicPath(c, path) ==
  IF StartsWith(path, c.PUBLIC_PATH) THEN Suffix(path, Len(c.PUBLIC_PATH) + 1)
  ELSE path

\* _fromPublic
fromPublic(c, path) == c.PUBLIC_PATH \o path

\* a call of pathWithSize with a value of any type: the typeof test, then
\* the replacement
pathWithSizeCall(value, size) ==
  IF value.t # "string" THEN [threw |-> TRUE, v |-> Null]
  ELSE [threw |-> FALSE, v |-> pathWithSize(value.v, size)]

\* _forEachSize: the names the callback is called with, in order, and
\* whether the loop throws: for an object descriptor the initializer reads
\* size.size while size is still undefined
forEachSize(sizes) ==
  LET objs == { i \in 1..Len(sizes) : sizes[i].t = "object" }
      stop == IF objs = {} THEN Len(sizes) + 1
              ELSE CHOOSE i \in objs : \A j \in objs : i <= j
  IN  [names |-> { sizes[i].name : i \in 1..(stop - 1) },
       count |-> stop - 1,
       threw |-> objs # {}]

\* what the getter of the virtual attribute returns
GetterValue(t, original, derived) ==
  [t |-> t, original |-> original, derived |-> derived]

\* _virtualAttributeGetter, for an instance whose path attribute is path:
\* an object { original, <name>: pathWithSize(path, name) ... }, undefined,
\* the path attribute itself, or the TypeError _forEachSize throws
virtualAttributeGetter(c, path) ==
  IF c.SIZES = Null THEN GetterValue("path", path, <<>>)
  ELSE IF path = Null THEN GetterValue("undefined", Null, <<>>)
  ELSE LET fe == forEachSize(c.SIZES)
       IN  IF fe.threw THEN GetterValue("throw", Null, <<>>)
           ELSE GetterValue("object", path,
                            [n \in fe.names |-> pathWithSize(path, n)])

\* the quality resize uses for a descriptor: _resizeAll passes
\* options.quality, which is undefined for a number (a property of the
\* number) and for a string (options replaced by {}), and the default
\* parameter of resize then applies
resizeQuality(d) ==
  IF d.t \in {"number", "string"} THEN DEFAULT_QUALITY ELSE d.quality

\* whether _destroyFileHook gets past its two early returns
destroyGuard(c, path) == c.CLEANUP_IS_ON /\ path # Null

\* mutant of destroyFileHook: the derivatives are forgotten
destroyOriginalOnly(c, path) ==
  IF ~destroyGuard(c, path) THEN [paths |-> {}, threw |-> FALSE]
  ELSE [paths |-> {fromPublic(c, path)}, threw |-> FALSE]

\* _destroyFileHook: the unlinks it issues and whether it throws
destroyFileHook(c, path) ==
  IF ~destroyGuard(c, path) THEN [paths |-> {}, threw |-> FALSE]
  ELSE LET original == fromPublic(c, path)
           fe == IF c.SIZES # Null THEN forEachSize(c.SIZES)
                 ELSE [names |-> {}, threw |-> FALSE]
       IN  [paths |-> { pathWithSize(original, n) : n \in fe.names }
                        \cup (IF fe.threw THEN {} ELSE {original}),
            threw |-> fe.threw]

\* mutant of processedValue: the marker is never set, the raw value stays
unprocessedValue(f) == file

\* the value _attachFile leaves in the virtual attribute
processedValue(f) == Marker

\* the guard of _setFile: (file && file.updated) || typeof file === 'undefined'
isNoop(f) == (f.t = "object" /\ f.updated) \/ f.t = "undefined"

\* mutant of classify: undefined is taken for null (file == null)
classifyLoose(f) ==
  CASE f.t = "object" /\ f.updated -> "noop"
    [] f.t = "file" -> "file"
    [] f.t = "string" -> "string"
    [] f.t \in {"null", "undefined"} -> "null"
    [] OTHER -> "ignored"

\* a variant of classify: a value of no handled shape is treated as null
classifyOtherAsNull(f) ==
  CASE isNoop(f) -> "noop"
    [] f.t = "file" -> "file"
    [] f.t = "string" -> "string"
    [] OTHER -> "null"

\* the branch _setFile takes for a field value
classify(f) ==
  CASE isNoop(f) -> "noop"
    [] f.t = "file" -> "file"
    [] f.t = "string" -> "string"
    [] f.t = "null" -> "null"
    [] OTHER -> "ignored"

\* /image/.test(file.mimetype)
isImage(mimetype) == RegExpTest({"image"}, mimetype)

\* mutant of statusRejected: only the upper end of the range is tested
statusRejectedAbove(code) == code >= 400

\* the test of download on the HEAD status
statusRejected(code) == code < 200 \/ code >= 400

\* the string download rejects with on a bad status
statusError(url, code) ==
  <<"Can't download resource: ">> \o url \o <<" responded with ">> \o
  <<StatusText(code), ": ", StatusMessage(code)>>

\* mutant of validationError: the item names the persisted path attribute
validationErrorOnPathAttribute(c, message) ==
  ValidationError(message, c.PATH_ATTRIBUTE_NAME)

\* _validationError, given the string or the message of the Error object
validationError(c, message) == ValidationError(message, c.VIRTUAL_ATTRIBUTE_NAME)

\* the first catch of the URL branch of _setFile
downloadCatch(c, err) == validationError(c, err.message)

\* the last catch of either branch of _setFile: _Error(err) rejects with
\* the error it is given
setFileCatch(c, err) == err

\* a variant of updateArguments: the stored path is persisted as it is, and
\* the options of the hook are left out
updateArgumentsPlain(c, f, o) == [path |-> f.path, options |-> NoOptions]

\* the arguments of instance.update in _attachFile: the value of the path
\* attribute and the options of the hook
updateArguments(c, f, o) == [path |-> publicPath(c, f.path), options |-> o]

\* the cleanup _setFile and _attachFile run when the option is on
cleanup(c, path) ==
  IF c.CLEANUP_IS_ON THEN destroyFileHook(c, path)
  ELSE [paths |-> {}, threw |-> FALSE]

(***************************************************************************)
(* Settling the hook's promise.                                             *)
(***************************************************************************)
\* The promise settles at `step` with `res`.  `book` says what the outcome
\* means for the stored file: "attach" (a resolved attach stored the file of
\* this operation), "clear" (the path no longer names a file stored by a
\* resolved attach) or "keep".
SettleTo(target, step, res, book, newPath) ==
  /\ pc' = target
  /\ result' = res
  /\ at' = step
  /\ allOk' = (allOk /\ res = OK)
  /\ stored' = CASE book = "attach" -> ops [] book = "clear" -> 0
                 [] OTHER -> stored
  /\ storedPaths' = IF book = "attach" THEN storedPaths \cup {newPath}
                    ELSE storedPaths
  /\ replaced' = IF book = "attach" /\ stored # 0 /\ cfg.CLEANUP_IS_ON
                 THEN replaced \cup {stored} ELSE replaced

\* the hook of the secondary update settles into the update that awaits it
Settle(step, res, book, newPath) ==
  SettleTo(IF nested THEN "save" ELSE "settled", step, res, book, newPath)

Goto(p) ==
  /\ pc' = p
  /\ UNCHANGED <<result, at, allOk, stored, storedPaths, replaced>>

(***************************************************************************)
(* The caller: Model.create, instance.update, findById, instance.destroy.   *)
(***************************************************************************)
BeginOp(hook, o) ==
  /\ ops' = ops + 1
  /\ options' = o
  /\ updateArgs' = NoUpdate
  /\ pc' = hook
  /\ afterCreate' = (hook = "afterCreate")
  /\ nested' = FALSE
  /\ cur' = NoFile
  /\ outerCur' = NoFile
  /\ result' = Pending
  /\ at' = "start"
  /\ started' = 0
  /\ hooks' = 0
  /\ issued' = {}
  /\ placed' = FALSE
  /\ written' = {}
  /\ updates' = 0
  /\ pathBefore' = pathAttr
  /\ UNCHANGED <<cfg, dirs, unlinks, writes, allOk, stored, storedPaths,
                 replaced, unlinkErr>>

\* the caller may have staged the file a descriptor names (multer), or not
Stage(v, staged) ==
  disk' = IF v.t = "file" /\ staged
          THEN Put(disk, v.path, Content(ops + 1, Null)) ELSE disk

\* Model.create({ pic: v }): the INSERT, then the afterCreate hook
Create(v, staged, o) ==
  /\ UNCHANGED lab
  /\ pc = "idle" /\ record = "none" /\ ops < MaxOps
  /\ record' = "live"
  /\ file' = v
  /\ Stage(v, staged)
  /\ BeginOp("afterCreate", o)
  /\ UNCHANGED <<dbPath, pathAttr>>

\* instance.update({ pic: v }): the beforeUpdate hook, then the UPDATE
Update(v, staged, o) ==
  /\ UNCHANGED lab
  /\ pc = "idle" /\ record = "live" /\ ops < MaxOps
  /\ file' = v
  /\ Stage(v, staged)
  /\ BeginOp("beforeUpdate", o)
  /\ UNCHANGED <<record, dbPath, pathAttr>>

\* instance.update({ name: ... }): the field keeps the value it has
UpdateOther(o) ==
  /\ UNCHANGED lab
  /\ pc = "idle" /\ record = "live" /\ ops < MaxOps
  /\ BeginOp("beforeUpdate", o)
  /\ UNCHANGED <<record, dbPath, pathAttr, file, disk>>

\* instance.destroy(): the beforeDestroy hook, then the DELETE
Destroy(o) ==
  /\ UNCHANGED lab
  /\ pc = "idle" /\ record = "live" /\ ops < MaxOps
  /\ BeginOp("beforeDestroy", o)
  /\ UNCHANGED <<record, dbPath, pathAttr, file, disk>>

\* Model.findById / instance.reload: a fresh instance of the row
Reload ==
  /\ UNCHANGED <<lab, options, updateArgs>>
  /\ pc = "idle" /\ record = "live"
  /\ file' = Undefined
  /\ pathAttr' = dbPath
  /\ UNCHANGED <<cfg, record, dbPath, disk, dirs, unlinks, writes, pc, cur,
                 afterCreate, nested, outerCur, result, ops, at, started,
                 hooks, issued, placed, written, updates, pathBefore, stored,
                 storedPaths, replaced, allOk, unlinkErr>>

\* the ORM completes the operation once the hook has settled; the history
\* of the operation is forgotten
Complete ==
  /\ UNCHANGED lab
  /\ pc = "settled"
  /\ pc' = "idle"
  /\ options' = NoOptions
  /\ updateArgs' = NoUpdate
  /\ dbPath' = IF result = OK /\ at # "destroy" THEN pathAttr ELSE dbPath
  /\ record' = IF result = OK /\ at = "destroy" THEN "destroyed" ELSE record
  /\ result' = Pending
  /\ at' = "start"
  /\ cur' = NoFile
  /\ outerCur' = NoFile
  /\ started' = 0
  /\ hooks' = 0
  /\ issued' = {}
  /\ placed' = FALSE
  /\ written' = {}
  /\ updates' = 0
  /\ pathBefore' = Null
  /\ UNCHANGED <<cfg, file, pathAttr, disk, dirs, unlinks, writes,
                 afterCreate, nested, ops, stored, storedPaths, replaced,
                 allOk, unlinkErr>>

(***************************************************************************)
(* The hooks.                                                               *)
(***************************************************************************)
\* the then-callback of _attachFile: post-processing, or done
AfterPersist(target, f) ==
  IF cfg.SIZES # Null /\ isImage(f.mimetype) THEN Goto("getSize")
  ELSE SettleTo(target, "attach", setFileCatch(cfg, OK), "attach",
                publicPath(cfg, f.path))

\* _attachFile(instance, f, afterCreate, options), up to the promise it
\* returns
AttachFile(f) ==
  /\ cur' = f
  /\ IF ~RegExpTest(cfg.MIMETYPE, f.mimetype)
     THEN /\ unlinks' = unlinks \cup {f.path}
          /\ issued' = issued \cup {f.path}
          /\ Settle("mime",
                    setFileCatch(cfg, validationError(cfg, cfg.WRONG_TYPE_MESSAGE)),
                    "keep", Null)
          /\ UNCHANGED <<file, pathAttr, nested, outerCur, updateArgs>>
     ELSE LET cl == cleanup(cfg, pathAttr)
          IN  /\ unlinks' = unlinks \cup cl.paths
              /\ issued' = issued \cup cl.paths
              /\ IF cl.threw
                 THEN /\ Settle("cleanup", setFileCatch(cfg, TypeError), "clear", Null)
                      /\ UNCHANGED <<file, pathAttr, nested, outerCur, updateArgs>>
                 ELSE /\ pathAttr' = publicPath(cfg, f.path)
                      /\ file' = processedValue(f)
                      /\ IF afterCreate /\ ~nested
                         THEN \* instance.update(...): its beforeUpdate hook
                              \* runs in a later tick
                              /\ Goto("beforeUpdate")
                              /\ nested' = TRUE
                              /\ outerCur' = f
                              /\ updateArgs' = updateArguments(cfg, f, options)
                         ELSE /\ AfterPersist(IF nested THEN "save" ELSE "settled", f)
                              /\ UNCHANGED <<nested, outerCur, updateArgs>>

\* _setFile: the synchronous part of the afterCreate / beforeUpdate hook
SetFile(hash) ==
  /\ UNCHANGED <<lab, options, updateArgs>>
  /\ pc \in {"afterCreate", "beforeUpdate"}
  /\ hooks' = hooks + 1
  /\ CASE classify(file) = "noop" ->
            /\ Settle("noop", OK, "keep", Null)
            /\ UNCHANGED <<file, pathAttr, unlinks, issued, cur, started>>
       [] classify(file) = "file" ->
            /\ started' = started + 1
            /\ IF nameFromUrlMatches(file.path)
               THEN /\ cur' = [src |-> file.path, mimetype |-> file.mimetype,
                               path |-> getFileNameForMoving(cfg, file.path, hash)]
                    /\ Goto("move")
               ELSE /\ cur' = cur
                    /\ Settle("move", setFileCatch(cfg, TypeError), "keep", Null)
            /\ UNCHANGED <<file, pathAttr, unlinks, issued>>
       [] classify(file) = "string" ->
            /\ IF nameFromUrlMatches(file.v)
               THEN /\ cur' = [src |-> file.v, mimetype |-> Null,
                               path |-> getFileNameForMoving(cfg, file.v, hash)]
                    /\ started' = started + 1
                    /\ Goto("head")
               ELSE /\ cur' = cur
                    /\ started' = started
                    /\ Settle("name", TypeError, "keep", Null)
            /\ UNCHANGED <<file, pathAttr, unlinks, issued>>
       [] classify(file) = "null" ->
            LET cl == cleanup(cfg, pathAttr)
            IN  /\ unlinks' = unlinks \cup cl.paths
                /\ issued' = issued \cup cl.paths
                /\ IF cl.threw
                   THEN /\ pathAttr' = pathAttr
                        /\ Settle("null", TypeError, "clear", Null)
                   ELSE /\ pathAttr' = Null
                        /\ Settle("null", OK, "clear", Null)
                /\ UNCHANGED <<file, cur, started>>
       [] OTHER ->
            /\ Settle("ignored", OK, "keep", Null)
            /\ UNCHANGED <<file, pathAttr, unlinks, issued, cur, started>>
  /\ UNCHANGED <<cfg, record, dbPath, disk, dirs, writes, afterCreate, nested,
                 outerCur, ops, placed, written, updates, pathBefore, unlinkErr>>

\* _moveFromTemporary: createDir, then mv, then (in the same tick as the
\* resolution) _attachFile
MoveDone(mkdirOk) ==
  /\ UNCHANGED <<lab, options>>
  /\ pc = "move"
  /\ LET dir == getInstancePath(cfg)
     IN  IF dir \notin dirs /\ ~mkdirOk
         THEN /\ Settle("move", setFileCatch(cfg, IOError("EACCES")), "keep", Null)
              /\ UNCHANGED <<disk, dirs, placed, file, pathAttr, unlinks, issued,
                             cur, nested, outerCur, updateArgs>>
         ELSE IF cur.src \notin DOMAIN disk
         THEN /\ dirs' = dirs \cup {dir}
              /\ Settle("move", setFileCatch(cfg, IOError("ENOENT")), "keep", Null)
              /\ UNCHANGED <<disk, placed, file, pathAttr, unlinks, issued,
                             cur, nested, outerCur, updateArgs>>
         ELSE /\ dirs' = dirs \cup {dir}
              /\ disk' = Put(Remove(disk, cur.src), cur.path, disk[cur.src])
              /\ placed' = TRUE
              /\ AttachFile(cur)
  /\ UNCHANGED <<cfg, record, dbPath, writes, afterCreate, ops, started,
                 hooks, written, updates, pathBefore, unlinkErr>>

\* download: the callback of request.head
HeadDone(err, code, ctype) ==
  /\ UNCHANGED <<lab, options, updateArgs>>
  /\ pc = "head"
  /\ IF err \/ ~ParsesAsUri(cur.src)
     THEN /\ Settle("head",
                    setFileCatch(cfg, downloadCatch(cfg, IOError("request"))),
                    "keep", Null)
          /\ cur' = cur
     ELSE IF statusRejected(code)
     THEN /\ Settle("head",
                    setFileCatch(cfg, downloadCatch(cfg,
                       StringRejection(statusError(cur.src, code)))),
                    "keep", Null)
          /\ cur' = cur
     ELSE /\ cur' = [cur EXCEPT !.mimetype = ctype]
          /\ Goto("get")
  /\ UNCHANGED <<cfg, record, dbPath, file, pathAttr, disk, dirs, unlinks,
                 writes, afterCreate, nested, outerCur, ops, started, hooks,
                 issued, placed, written, updates, pathBefore, unlinkErr>>

\* download: mkdirp, then the GET piped into the target until the write
\* stream closes, then (in the same tick as the resolution) _attachFile.
\* An error of the GET or of the stream has no listener: nothing settles.
GetClosed(mkdirOk, streamOk) ==
  /\ UNCHANGED <<lab, options>>
  /\ pc = "get"
  /\ LET dir == dirName(cur.path)
     IN  IF dir \notin dirs /\ ~mkdirOk
         THEN /\ Settle("get",
                        setFileCatch(cfg, downloadCatch(cfg, IOError("EACCES"))),
                        "keep", Null)
              /\ UNCHANGED <<disk, dirs, placed, file, pathAttr, unlinks, issued,
                             cur, nested, outerCur, updateArgs>>
         ELSE IF ~streamOk
         THEN /\ dirs' = dirs \cup {dir}
              /\ Goto("hung")
              /\ UNCHANGED <<disk, placed, file, pathAttr, unlinks, issued,
                             cur, nested, outerCur, updateArgs>>
         ELSE /\ dirs' = dirs \cup {dir}
              /\ disk' = Put(disk, cur.path, Content(ops, Null))
              /\ placed' = TRUE
              /\ AttachFile(cur)
  /\ UNCHANGED <<cfg, record, dbPath, writes, afterCreate, ops, started,
                 hooks, written, updates, pathBefore, unlinkErr>>

\* the secondary update of a post-create attach, after its beforeUpdate
\* hook has settled: the UPDATE statement, then the then-callback of
\* _attachFile
Save(dbOk) ==
  /\ UNCHANGED <<lab, options, updateArgs>>
  /\ pc = "save"
  /\ nested' = FALSE
  /\ IF result # OK
     THEN /\ SettleTo("settled", "update", setFileCatch(cfg, result), "clear", Null)
          /\ UNCHANGED <<dbPath, updates, cur>>
     ELSE IF ~dbOk
     THEN /\ SettleTo("settled", "update", setFileCatch(cfg, IOError("SQLITE")),
                      "clear", Null)
          /\ UNCHANGED <<dbPath, updates, cur>>
     ELSE /\ dbPath' = updateArgs.path
          /\ updates' = updates + 1
          /\ cur' = outerCur
          /\ AfterPersist("settled", outerCur)
  /\ UNCHANGED <<cfg, record, file, pathAttr, disk, dirs, unlinks, writes,
                 afterCreate, outerCur, ops, started, hooks, issued, placed,
                 written, pathBefore, unlinkErr>>

\* the operations the gm instance carries when the i-th derivative is
\* written.  _processImage makes one instance, gm(file.path), and _resizeAll
\* hands that same instance to every resize call; gm's chain methods append
\* to the argument list of their receiver and return it, so the instance
\* has collected the -resize and -quality arguments of the descriptors
\* visited so far.  Sizes are named by their descriptor.
gmArgs(sizes, i) ==
  [resize |-> [j \in 1..i |-> sizes[j].name],
   quality |-> [j \in 1..i |-> resizeQuality(sizes[j])]]

\* the writes _resizeAll starts, one per descriptor _forEachSize visits,
\* each with the arguments of its gm command
resizeAll(c, path, op) ==
  { [src |-> path, name |-> c.SIZES[i].name, op |-> op,
     args |-> gmArgs(c.SIZES, i)] : i \in 1..forEachSize(c.SIZES).count }

\* mutant of joined: the first write to finish resolves the join
joinedFirst(ws, op) == TRUE

\* whether Promise.all of the writes of operation op has resolved, given
\* the writes still in flight
joined(ws, op) == \A w \in ws : w.op # op

\* _processImage: the callback of gm(path).size, then _resizeAll
GetSizeDone(gmOk) ==
  /\ UNCHANGED <<lab, options, updateArgs>>
  /\ pc = "getSize"
  /\ IF gmOk /\ cur.path \in DOMAIN disk
     THEN /\ writes' = writes \cup resizeAll(cfg, cur.path, ops)
          /\ IF forEachSize(cfg.SIZES).threw
             THEN Settle("resizeAll", setFileCatch(cfg, TypeError), "clear", Null)
             ELSE Goto("resizeAll")
     ELSE /\ writes' = writes
          /\ Settle("getSize", setFileCatch(cfg, IOError("gm")), "clear", Null)
  /\ UNCHANGED <<cfg, record, dbPath, file, pathAttr, disk, dirs, unlinks, cur,
                 afterCreate, nested, outerCur, ops, started, hooks, issued,
                 placed, written, updates, pathBefore, unlinkErr>>

\* resize: the callback of gm.resize(...).quality(...).write(filename)
WriteDone(w, gmOk) ==
  /\ UNCHANGED <<lab, options, updateArgs>>
  /\ w \in writes
  /\ LET success == gmOk /\ w.src \in DOMAIN disk
         awaited == pc = "resizeAll" /\ w.op = ops
     IN  /\ writes' = writes \ {w}
         /\ disk' = IF success
                    THEN Put(disk, pathWithSize(w.src, w.name), Content(w.op, w.name))
                    ELSE disk
         /\ written' = IF awaited /\ success THEN written \cup {w.name} ELSE written
         /\ IF awaited /\ ~success
            THEN Settle("write", setFileCatch(cfg, IOError("gm")), "clear", Null)
            ELSE IF awaited /\ joined(writes \ {w}, ops)
            THEN Settle("resize", setFileCatch(cfg, OK), "attach", pathAttr)
            ELSE Goto(pc)
  /\ UNCHANGED <<cfg, record, dbPath, file, pathAttr, dirs, unlinks, cur,
                 afterCreate, nested, outerCur, ops, started, hooks, issued,
                 placed, updates, pathBefore, unlinkErr>>

\* the callback of a fire-and-forget fs.unlink: (e) => {}
UnlinkDone(u, fsOk) ==
  /\ UNCHANGED <<lab, options, updateArgs>>
  /\ u \in unlinks
  /\ unlinks' = unlinks \ {u}
  /\ disk' = IF fsOk /\ u \in DOMAIN disk THEN Remove(disk, u) ELSE disk
  /\ unlinkErr' = (unlinkErr \/ (~fsOk /\ u \in DOMAIN disk))
  /\ UNCHANGED <<cfg, record, dbPath, file, pathAttr, dirs, writes, pc, cur,
                 afterCreate, nested, outerCur, result, ops, at, started,
                 hooks, issued, placed, written, updates, pathBefore, stored,
                 storedPaths, replaced, allOk>>

\* the beforeDestroy hook: _destroyFileHook
DestroyFile ==
  /\ UNCHANGED <<lab, options, updateArgs>>
  /\ pc = "beforeDestroy"
  /\ LET d == destroyFileHook(cfg, pathAttr)
     IN  /\ unlinks' = unlinks \cup d.paths
         /\ issued' = issued \cup d.paths
         /\ Settle("destroy", IF d.threw THEN TypeError ELSE OK, "clear", Null)
  /\ UNCHANGED <<cfg, record, dbPath, file, pathAttr, disk, dirs, writes, cur,
                 afterCreate, nested, outerCur, ops, started, hooks, placed,
                 written, updates, pathBefore, unlinkErr>>

(***************************************************************************)
(* The specification.                                                       *)
(***************************************************************************)
\* no call is under examination
LabIdle == [kind |-> "none"]

\* the program before the first operation: no row, no file, nothing running
Fresh ==
  /\ record = "none"
  /\ dbPath = Null
  /\ file = Undefined
  /\ pathAttr = Null
  /\ disk = <<>>
  /\ dirs = {}
  /\ unlinks = {}
  /\ writes = {}
  /\ pc = "idle"
  /\ cur = NoFile
  /\ afterCreate = FALSE
  /\ nested = FALSE
  /\ outerCur = NoFile
  /\ result = Pending
  /\ ops = 0
  /\ at = "start"
  /\ started = 0
  /\ hooks = 0
  /\ issued = {}
  /\ placed = FALSE
  /\ written = {}
  /\ updates = 0
  /\ pathBefore = Null
  /\ stored = 0
  /\ storedPaths = {}
  /\ replaced = {}
  /\ allOk = TRUE
  /\ unlinkErr = FALSE
  /\ options = NoOptions
  /\ updateArgs = NoUpdate

Init ==
  /\ cfg \in { addTo(SequelizeField(o), ModelName) : o \in Options }
  /\ Fresh
  /\ lab = LabIdle

Next ==
  \/ \E v \in Inputs \cup {Undefined}, staged \in BOOLEAN, o \in SaveOptions :
       Create(v, staged, o)
  \/ \E v \in Inputs, staged \in BOOLEAN, o \in SaveOptions : Update(v, staged, o)
  \/ \E o \in SaveOptions : UpdateOther(o)
  \/ \E o \in SaveOptions : Destroy(o)
  \/ Reload
  \/ Complete
  \/ \E hash \in Hashes : SetFile(hash)
  \/ \E mkdirOk \in BOOLEAN : MoveDone(mkdirOk)
  \/ \E err \in BOOLEAN, code \in Statuses, ctype \in ContentTypes :
       HeadDone(err, code, ctype)
  \/ \E mkdirOk \in BOOLEAN, streamOk \in BOOLEAN : GetClosed(mkdirOk, streamOk)
  \/ \E dbOk \in BOOLEAN : Save(dbOk)
  \/ \E gmOk \in BOOLEAN : GetSizeDone(gmOk)
  \/ \E w \in writes, gmOk \in BOOLEAN : WriteDone(w, gmOk)
  \/ \E u \in unlinks, fsOk \in BOOLEAN : UnlinkDone(u, fsOk)
  \/ DestroyFile

Spec == Init /\ [][Next]_vars

\* every callback or stream event of an I/O call the hook has issued fires
\* eventually, with one of its outcomes, and a hook that was invoked runs
Fairness ==
  /\ WF_vars(\E hash \in Hashes : SetFile(hash))
  /\ WF_vars(\E mkdirOk \in BOOLEAN : MoveDone(mkdirOk))
  /\ WF_vars(\E err \in BOOLEAN, code \in Statuses, ctype \in ContentTypes :
               HeadDone(err, code, ctype))
  /\ WF_vars(\E mkdirOk \in BOOLEAN, streamOk \in BOOLEAN :
               GetClosed(mkdirOk, streamOk))
  /\ WF_vars(\E dbOk \in BOOLEAN : Save(dbOk))
  /\ WF_vars(\E gmOk \in BOOLEAN : GetSizeDone(gmOk))
  /\ WF_vars(\E w \in writes, gmOk \in BOOLEAN : WriteDone(w, gmOk))
  /\ WF_vars(\E u \in unlinks, fsOk \in BOOLEAN : UnlinkDone(u, fsOk))
  /\ WF_vars(DestroyFile)

FairSpec == Spec /\ Fairness

(***************************************************************************)
(* The pure functions and the registration, examined call by call: lab     *)
(* holds the arguments of one call and then its result.                     *)
(***************************************************************************)
OtherModel == <<"n">>

Models == {ModelName, OtherModel}

OtherId == <<"2">>

Keys == {InstanceId, OtherId}

NameDots == <<"a", ".", "b", ".", "g">>

NameNoExt == <<"o">>

FileNames == {NameA, NameDots, NameNoExt}

\* options with the two grouping toggles
OptG(folderKey, groupByAttribute) ==
  [Opt(ImageMatcher, Null, FALSE, folderKey)
     EXCEPT !.groupByAttribute = groupByAttribute]

PlanOptions ==
  { OptG(k, g) : k \in {DefaultFolderKey, Null}, g \in BOOLEAN }

Range(q) == { q[i] : i \in 1..Len(q) }

\* a constructed field, not yet added to a model
PlanInputs ==
  { [kind |-> "plan", field |-> SequelizeField(o), registered |-> <<>>,
     model |-> Null, key |-> Null, tmp |-> Null, hash |-> Null, out |-> Null]
      : o \in PlanOptions }

\* field.addTo(Model): _addHooksTo stores the model folder on the field
LabAddTo(m) ==
  /\ lab.kind = "plan" /\ lab.out = Null
  /\ m \notin Range(lab.registered)
  /\ lab' = [lab EXCEPT !.field = addTo(@, m), !.registered = Append(@, m)]
  /\ UNCHANGED program

\* a hook of model m plans the path of a file for an instance
LabPlan(m, key, tmp, hash) ==
  /\ lab.kind = "plan" /\ lab.out = Null
  /\ m \in Range(lab.registered)
  /\ lab' = [lab EXCEPT !.model = m, !.key = key, !.tmp = tmp, !.hash = hash,
                         !.out = getFileNameForMovingFor(lab.field, key, tmp, hash)]
  /\ UNCHANGED program

\* options as a caller may give them, well typed or not
GivenOptions ==
  [virtualAttribute : {Given("String", <<"f">>), Given("Number", Null)},
   mimetype : {Given("RegExp", {"image"}), Given("RegExp", {"pdf"}),
               Given("RegExp", {"image", "pdf"}),
               Given("String", {"diskimage"})},
   crop : {NotGiven, Given("Boolean", <<"true">>)},
   cleanup : {NotGiven, Given("String", Null)},
   folderKey : {NotGiven, Given("Null", Null)},
   sizes : {NotGiven, Given("Object", OneSize), Given("Number", Null)}]

ConstructorInputs ==
  { [kind |-> "new", options |-> o, done |-> FALSE, threw |-> FALSE]
      : o \in GivenOptions }

\* new SequelizeField(options)
LabConstruct ==
  /\ lab.kind = "new" /\ ~lab.done
  /\ lab' = [lab EXCEPT !.done = TRUE, !.threw = constructorThrows(lab.options)]
  /\ UNCHANGED program

\* two different records, each with a hook invocation that attaches a file
\* a.g, an uploaded one or one named by a URL; a record may hold a stored
\* file b.g from before.  The records are of one model or of the two models
\* the field was added to.
Pair == {1, 2}

\* the uploaded files, in different temporary folders
PairTmp(i) == (IF i = 1 THEN TMP ELSE <<"v">>) \o <<"/">> \o NameA

\* the path _getFileNameForMoving plans for record i
PairNew(c, keys, i) == getFileNameForMovingFor(c, keys[i], PairTmp(i), <<"h">>)

\* the path attribute a record holds from an earlier attach of b.g
PairOld(c, key) ==
  publicPath(c, getFileNameForMovingFor(c, key, Staged(NameB), <<"h">>))

\* the names of the configured derivatives
PairSizes(c) == IF c.SIZES = Null THEN {} ELSE forEachSize(c.SIZES).names

\* the files of an earlier attach: the original and every derivative
PairOldFiles(c, P) ==
  IF P = Null THEN {}
  ELSE { [path |-> fromPublic(c, P), content |-> Content(0, Null)] }
       \cup { [path |-> pathWithSize(fromPublic(c, P), n), content |-> Content(0, n)]
                : n \in PairSizes(c) }

\* the disk before the two invocations
PairDisk(c, old, urls) ==
  LET files == { [path |-> PairTmp(i), content |-> Content(i, Null)]
                   : i \in { j \in Pair : ~urls[j] } }
                 \cup PairOldFiles(c, old[1]) \cup PairOldFiles(c, old[2])
  IN  [q \in { f.path : f \in files } |->
         (CHOOSE f \in files : f.path = q).content]

\* the models and keys of two different records
PairRecords ==
  { r \in [models : Models \X Models, keys : Keys \X Keys] :
      r.models[1] # r.models[2] \/ r.keys[1] # r.keys[2] }

\* the field after addTo for the model, or the two models, of the records
PairFields(models) ==
  { IF models[1] = models[2] THEN addTo(SequelizeField(o), models[1])
    ELSE addTo(addTo(SequelizeField(o), models[1]), models[2])
      : o \in { Opt(ImageMatcher, sizes, clean, DefaultFolderKey)
                  : sizes \in {Null, OneSize}, clean \in BOOLEAN } }

\* what the two records may hold before
PairOlds(c, keys) ==
  { <<a, b>> : a \in {Null, PairOld(c, keys[1])}, b \in {Null, PairOld(c, keys[2])} }

PairStart(r, c, old, urls) ==
  [kind |-> "pair", field |-> c, models |-> r.models, keys |-> r.keys,
   old |-> old, urls |-> urls, pcs |-> <<"dir", "dir">>,
   disk |-> PairDisk(c, old, urls), disk0 |-> PairDisk(c, old, urls),
   dirs |-> {}, unlinks |-> {}, writes |-> {}, paths |-> old,
   touched |-> <<{}, {}>>]

PairInputs ==
  UNION { UNION { { PairStart(r, c, old, urls)
                      : old \in PairOlds(c, r.keys), urls \in BOOLEAN \X BOOLEAN }
                  : c \in PairFields(r.models) }
          : r \in PairRecords }

\* createDir(instancePath) of _moveFromTemporary, or mkdirp(basepath) of
\* download, for record i
PairCreateDir(i) ==
  /\ lab.kind = "pair" /\ lab.pcs[i] = "dir"
  /\ LET dir == getInstancePathFor(lab.field, lab.keys[i])
     IN  lab' = [lab EXCEPT !.pcs[i] = "move",
                            !.dirs = @ \cup {dir},
                            !.touched[i] = @ \cup {dir}]
  /\ UNCHANGED program

\* mv of _moveFromTemporary, or the close of download's stream, and, in
\* the same turn, _attachFile: the unlinks of the cleanup are issued, the
\* path attribute is set, the writes of the derivatives are started.
\* `touched` collects the paths the invocation creates, moves to, writes or
\* deletes.
PairMove(i) ==
  /\ lab.kind = "pair" /\ lab.pcs[i] = "move"
  /\ LET c == lab.field
         new == PairNew(c, lab.keys, i)
         ws == IF c.SIZES = Null THEN {} ELSE resizeAll(c, new, i)
         gone == cleanup(c, lab.paths[i]).paths
     IN  lab' = [lab EXCEPT
                   !.disk = IF lab.urls[i] THEN Put(@, new, Content(i, Null))
                            ELSE Put(Remove(@, PairTmp(i)), new, @[PairTmp(i)]),
                   !.unlinks = @ \cup gone,
                   !.touched[i] = @ \cup {new} \cup gone
                                    \cup { pathWithSize(w.src, w.name) : w \in ws },
                   !.paths[i] = publicPath(c, new),
                   !.writes = @ \cup ws,
                   !.pcs[i] = IF ws = {} THEN "done" ELSE "resize"]
  /\ UNCHANGED program

\* an fs.unlink of either invocation completes
PairUnlinkDone(u) ==
  /\ lab.kind = "pair" /\ u \in lab.unlinks
  /\ lab' = [lab EXCEPT !.unlinks = @ \ {u}, !.disk = Remove(@, u)]
  /\ UNCHANGED program

\* a gm write of either invocation completes; the last one of an
\* invocation resolves its hook
PairWriteDone(w) ==
  /\ lab.kind = "pair" /\ w \in lab.writes
  /\ lab' = [lab EXCEPT
               !.writes = @ \ {w},
               !.disk = Put(@, pathWithSize(w.src, w.name), Content(w.op, w.name)),
               !.pcs[w.op] = IF joined(lab.writes \ {w}, w.op) THEN "done" ELSE @]
  /\ UNCHANGED program

\* download(url, path), call by call: `log` lists the requests and file
\* system calls it has issued, `disk` the local files it has opened
DownloadInputs ==
  { [kind |-> "download", url |-> Url(name),
     path |-> getFileNameForMovingFor(cfg, InstanceId, Url(name), <<"h">>),
     pc |-> "called", status |-> 0, ctype |-> Null, dirs0 |-> d, dirs |-> d,
     disk |-> <<>>, log |-> <<>>, out |-> Null]
      : name \in {NameA, NameB}, d \in {{}, {cfg.MODEL_PATH}} }

\* download: request.head(url, ...) is the first statement of the executor
downloadCall ==
  /\ lab.kind = "download" /\ lab.pc = "called"
  /\ lab' = [lab EXCEPT !.pc = "head", !.log = Append(@, "HEAD")]
  /\ UNCHANGED program

\* download: the callback of request.head
downloadHeadDone(err, code, ctype) ==
  /\ lab.kind = "download" /\ lab.pc = "head"
  /\ lab' = IF err
            THEN [lab EXCEPT !.pc = "rejected", !.out = IOError("request")]
            ELSE IF statusRejected(code)
            THEN [lab EXCEPT !.pc = "rejected", !.status = code,
                             !.out = StringRejection(statusError(lab.url, code))]
            ELSE [lab EXCEPT !.pc = "mkdirp", !.status = code, !.ctype = ctype,
                             !.log = Append(@, "mkdirp")]
  /\ UNCHANGED program

\* download: the callback of mkdirp(basepath); on success the GET is issued
\* and piped into fs.createWriteStream(path)
downloadMkdirpDone(mkdirOk) ==
  /\ lab.kind = "download" /\ lab.pc = "mkdirp"
  /\ lab' = IF ~mkdirOk /\ dirName(lab.path) \notin lab.dirs
            THEN [lab EXCEPT !.pc = "rejected", !.out = IOError("EACCES")]
            ELSE [lab EXCEPT !.pc = "get",
                             !.dirs = @ \cup {dirName(lab.path)},
                             !.disk = Put(@, lab.path, "open"),
                             !.log = @ \o <<"GET", "createWriteStream">>]
  /\ UNCHANGED program

\* download: the write stream closes and the promise resolves; an error of
\* the GET or of the stream has no listener, and nothing settles
downloadClose(streamOk) ==
  /\ lab.kind = "download" /\ lab.pc = "get"
  /\ lab' = IF streamOk
            THEN [lab EXCEPT !.pc = "resolved",
                             !.disk = Put(@, lab.path, "closed"),
                             !.log = Append(@, "close"),
                             !.out = [mimetype |-> lab.ctype, path |-> lab.path]]
            ELSE [lab EXCEPT !.pc = "hung"]
  /\ UNCHANGED program

\* stored paths with and without an extension, with and without dots in
\* the names of the directories or more than one dot in the file name
DerivePaths ==
  { <<"d", "/", "a", ".", "g">>, <<"d", "/", "a">>, <<"d", ".", "x", "/", "a">>,
    <<"d", ".", "x", "/", "a", ".", "g">>, <<"d", "/", "a", ".", "b", ".", "g">> }

\* the derivative names
DeriveNames == {<<"s">>, <<"b">>}

DeriveInputs ==
  { [kind |-> "derive", value |-> v, n |-> n, m |-> m, done |-> FALSE,
     first |-> Null, other |-> Null, again |-> Null, threw |-> FALSE]
      : v \in { Str(P) : P \in DerivePaths } \cup {Other, Undefined, JSNull},
        n \in DeriveNames, m \in DeriveNames }

\* pathWithSize(P, n), pathWithSize(P, m) and pathWithSize(pathWithSize(P, n), m)
LabPathWithSize ==
  /\ lab.kind = "derive" /\ ~lab.done
  /\ LET r == pathWithSizeCall(lab.value, lab.n)
     IN  lab' = IF r.threw THEN [lab EXCEPT !.done = TRUE, !.threw = TRUE]
                ELSE [lab EXCEPT !.done = TRUE, !.first = r.v,
                                 !.other = pathWithSizeCall(lab.value, lab.m).v,
                                 !.again = pathWithSizeCall(Str(r.v), lab.m).v]
  /\ UNCHANGED program

\* options with a base path and a public path: the defaults, a base path
\* under the public path, a base path that merely begins with the text of
\* the public path, and one outside of it
OptP(basepath, public) ==
  [Opt(ImageMatcher, Null, TRUE, DefaultFolderKey)
     EXCEPT !.basepath = basepath, !.publicPath = public]

PublicOptions ==
  { OptP(b, q) : b \in {Null, <<"p", "/", "v">>, <<"p", "v">>, <<"s", "/", "p">>},
                 q \in {Null, <<"s">>} }

\* a path _getFileNameForMoving has planned, before it is made public
PublicInputs ==
  { [kind |-> "public", field |-> addTo(SequelizeField(o), ModelName),
     path |-> getFileNameForMovingFor(addTo(SequelizeField(o), ModelName),
                                      InstanceId, Staged(name), <<"h">>),
     done |-> FALSE, public |-> Null, back |-> Null]
      : o \in PublicOptions, name \in {NameA, NameB} }

\* _attachFile persists _publicPath(file.path); _destroyFileHook resolves
\* the persisted path with _fromPublic
LabPublicPath ==
  /\ lab.kind = "public" /\ ~lab.done
  /\ lab' = [lab EXCEPT !.done = TRUE,
                        !.public = publicPath(lab.field, lab.path),
                        !.back = fromPublic(lab.field, publicPath(lab.field, lab.path))]
  /\ UNCHANGED program

\* the values of the folder key attribute examined: an id, and a text with
\* parent segments
UpKey == <<".", ".", "/", ".", ".">>

SafeKeys == {InstanceId, UpKey}

\* a value of the path attribute that no attach has written: the attribute
\* is an ordinary column of the model
ForeignPath == <<"/", ".", ".", "/", "x", "/", "b", ".", "g">>

\* one hook invocation of a field of one model, with cleanup and one
\* derivative: the folder key value of the instance, the name of the
\* uploaded file and the value the path attribute holds
SafeInputs ==
  { [kind |-> "safe",
     field |-> addTo(SequelizeField(Opt(ImageMatcher, OneSize, TRUE, DefaultFolderKey)),
                     ModelName),
     key |-> key, tmp |-> Staged(name), old |-> old, done |-> FALSE,
     created |-> {}, moved |-> {}, written |-> {}, unlinked |-> {}]
      : key \in SafeKeys, name \in {NameA, NameB},
        old \in {Null, <<"/", "u", "/", "m", "s", "/", "f", "s", "/", "1", "/", "b", ".", "g">>,
                 ForeignPath} }

\* the paths one attach hands to the file system: createDir and mv of
\* _moveFromTemporary, the unlinks of the cleanup in _attachFile, the writes
\* of _resizeAll
LabAttachPaths ==
  /\ lab.kind = "safe" /\ ~lab.done
  /\ LET c == lab.field
         new == getFileNameForMovingFor(c, lab.key, lab.tmp, <<"h">>)
     IN  lab' = [lab EXCEPT
                   !.done = TRUE,
                   !.created = {getInstancePathFor(c, lab.key)},
                   !.moved = {new},
                   !.unlinked = cleanup(c, lab.old).paths,
                   !.written = { pathWithSize(w.src, w.name) : w \in resizeAll(c, new, 1) }]
  /\ UNCHANGED program

(***************************************************************************)
(* The crop of _processImage.  The properties of a crop descriptor are      *)
(* fractions of the measured dimensions; numbers are counted in halves.    *)
(***************************************************************************)
\* the number n/2
Num(n) == [t |-> "num", n |-> n]

NaN == [t |-> "NaN"]

\* Number(v) of a property of the descriptor: undefined and a string that
\* is not a number give NaN
Number(v) == IF v.t = "num" THEN v ELSE NaN

\* v || 1: NaN and 0 are falsy
orOne(v) == IF v = NaN \/ v.n = 0 THEN Num(2) ELSE v

\* d * v, in pixels; NaN is contagious
times(d, v) == IF v = NaN THEN NaN ELSE (d * v.n) \div 2

\* crop.k of the value of the crop attribute
cropProperty(crop, k) == IF crop.t = "crop" THEN crop[k] ELSE Undefined

\* the arguments of gmi.crop
cropArguments(crop, width, height) ==
  [width |-> times(width, orOne(Number(cropProperty(crop, "width")))),
   height |-> times(height, orOne(Number(cropProperty(crop, "height")))),
   x |-> times(width, Number(cropProperty(crop, "x"))),
   y |-> times(height, Number(cropProperty(crop, "y")))]

\* if (crop): undefined and null are falsy, an object and a non-empty
\* string are truthy
cropTruthy(crop) == crop.t \notin {"undefined", "null"}

\* the operations on gm(file.path) when _resizeAll is called
processImage(c, crop, width, height) ==
  IF c.CROP_IS_ON /\ cropTruthy(crop)
  THEN << [op |-> "crop", args |-> cropArguments(crop, width, height)] >>
  ELSE << >>

\* values of a property of the descriptor
CropNumbers == {Undefined, Str(<<"a">>), Num(0), Num(1), Num(2)}

\* values of the crop attribute
CropValues ==
  {Undefined, JSNull, Str(<<"a">>)} \cup
  { [t |-> "crop", width |-> w, height |-> h, x |-> x, y |-> y]
      : w \in CropNumbers, x \in CropNumbers,
        h \in {Undefined, Num(0), Num(1)}, y \in {Undefined, Num(1)} }

\* dimensions getSize measures
Measured == { [width |-> 4, height |-> 2], [width |-> 2, height |-> 6] }

CropInputs ==
  { [kind |-> "crop",
     field |-> addTo(SequelizeField([Opt(ImageMatcher, PlainSizes, FALSE,
                                         DefaultFolderKey) EXCEPT !.crop = on]),
                     ModelName),
     crop |-> v, size |-> m, done |-> FALSE, gmi |-> << >>, writes |-> {}]
      : on \in BOOLEAN, v \in CropValues, m \in Measured }

\* _processImage after getSize: the crop, then the writes of _resizeAll,
\* each from the operations gathered on the one gm instance
LabProcessImage ==
  /\ lab.kind = "crop" /\ ~lab.done
  /\ LET gmi == processImage(lab.field, lab.crop, lab.size.width, lab.size.height)
     IN  lab' = [lab EXCEPT
                   !.done = TRUE,
                   !.gmi = gmi,
                   !.writes = { [name |-> w.name, first |-> gmi, args |-> w.args]
                                  : w \in resizeAll(lab.field, <<"o">>, 1) }]
  /\ UNCHANGED program

\* the characters of the size specs
SizeAlphabet == Digits \cup {"x", "!"}

\* String(size) of every size spec up to the bound
SizeInputs ==
  { [kind |-> "size", str |-> q, done |-> FALSE, out |-> Null]
      : q \in UNION { [1..n -> SizeAlphabet] : n \in 0..MaxSizeLen } }

\* resize calls parseSize(size)
LabParseSize ==
  /\ lab.kind = "size" /\ ~lab.done
  /\ lab' = [lab EXCEPT !.done = TRUE, !.out = parseSize(lab.str)]
  /\ UNCHANGED program

LabInit ==
  /\ cfg = addTo(SequelizeField(Opt(ImageMatcher, Null, FALSE, DefaultFolderKey)),
                 ModelName)
  /\ Fresh
  /\ \/ lab \in PlanInputs
     \/ lab \in SizeInputs
     \/ lab \in ConstructorInputs
     \/ lab \in PairInputs
     \/ lab \in DownloadInputs
     \/ lab \in DeriveInputs
     \/ lab \in PublicInputs
     \/ lab \in SafeInputs
     \/ lab \in CropInputs

LabNext ==
  \/ LabProcessImage
  \/ LabAttachPaths
  \/ LabPublicPath
  \/ LabPathWithSize
  \/ downloadCall
  \/ \E err \in BOOLEAN, code \in Statuses, ctype \in ContentTypes :
       downloadHeadDone(err, code, ctype)
  \/ \E mkdirOk \in BOOLEAN : downloadMkdirpDone(mkdirOk)
  \/ \E streamOk \in BOOLEAN : downloadClose(streamOk)
  \/ \E i \in Pair : PairCreateDir(i)
  \/ \E i \in Pair : PairMove(i)
  \/ \E u \in (IF lab.kind = "pair" THEN lab.unlinks ELSE {}) : PairUnlinkDone(u)
  \/ \E w \in (IF lab.kind = "pair" THEN lab.writes ELSE {}) : PairWriteDone(w)
  \/ LabConstruct
  \/ LabParseSize
  \/ \E m \in Models : LabAddTo(m)
  \/ \E m \in Models, key \in Keys, name \in FileNames, hash \in Hashes :
       LabPlan(m, key, Staged(name), hash)

LabSpec == LabInit /\ [][LabNext]_vars

(***************************************************************************)
(* Properties.                                                              *)
(***************************************************************************)
\* no asynchronous I/O is in flight
Quiescent == unlinks = {} /\ writes = {}

\* the configured derivative names
SizeNames(c) ==
  IF c.SIZES = Null THEN {} ELSE { c.SIZES[i].name : i \in 1..Len(c.SIZES) }

\* the original and every derivative of stored path P are on disk
AllOnDisk(P) ==
  /\ fromPublic(cfg, P) \in DOMAIN disk
  /\ \A n \in SizeNames(cfg) : pathWithSize(fromPublic(cfg, P), n) \in DOMAIN disk

\* C1: after any sequence of successful create / update / replace operations,
\* once all pending I/O has completed, a stored path P in the path attribute
\* means the original fromPublic(P) and every derivative
\* derivativePath(fromPublic(P), N) exist on disk.  Stated for the
\* configurations whose matcher accepts images only, so that every stored
\* file is one _attachFile post-processes, and with the default grouping by
\* instance key, so that no random suffix is involved.
C1_StoredPathImpliesFiles ==
  (cfg.MIMETYPE = ImageMatcher /\ cfg.FOLDER_KEY # Null /\ allOk /\ pc = "idle" /\ Quiescent
     /\ record = "live" /\ pathAttr # Null)
    => AllOnDisk(pathAttr)

\* the error is a ValidationError with exactly one item, on the virtual
\* attribute
FieldScoped(res) ==
  /\ res.name = "SequelizeValidationError"
  /\ Len(res.errors) = 1
  /\ res.errors[1].path = cfg.VIRTUAL_ATTRIBUTE_NAME

\* C2: within one operation a field value is processed at most once: a
\* resolved attach leaves the marker { updated: true } in the field, and a
\* hook that runs on the marker (the beforeUpdate hook re-entered by the
\* secondary update, or a later update of the same instance) starts no
\* download and no move.
C2_ProcessedAtMostOnce ==
  /\ started <= 1
  /\ (pc = "settled" /\ result = OK /\ started = 1) => file = Marker
  /\ (file = Marker /\ ~placed) => started = 0

\* C2 witness: a post-create attach has resolved after its secondary update
\* re-entered the hook, which ran on the marker and started nothing.
C2_Witness ==
  pc = "settled" /\ result = OK /\ hooks = 2 /\ updates = 1 /\ started = 1

\* C3: a hook that fires on an undefined or already processed field value
\* returns at once and changes nothing: no file, directory, unlink or write,
\* no instance update, and the path attribute keeps its value.
C3_NoopChangesNothing ==
  [][ (hooks' = hooks + 1 /\ (file = Undefined \/ file = Marker))
        => /\ UNCHANGED <<disk, dirs, unlinks, writes, pathAttr, dbPath, file,
                          started, issued, updates, placed>>
           /\ result' = OK
           /\ pc' \in {"settled", "save"} ]_vars

\* C3 witness: the beforeUpdate hook has run on an untouched field of a
\* record that holds a stored path.
C3_Witness ==
  pc = "settled" /\ at = "noop" /\ file = Undefined /\ ~afterCreate
    /\ pathAttr # Null /\ fromPublic(cfg, pathAttr) \in DOMAIN disk

\* C4: a relocated or fetched file whose mimetype does not match makes the
\* attach fail with a ValidationError of exactly one item, whose path is the
\* virtual attribute and whose message is the wrong-type message, and the
\* unlink of the just placed file is issued (so the file is deleted unless
\* the unlink itself fails).
C4_WrongTypeRejected ==
  (pc = "settled" /\ placed /\ ~RegExpTest(cfg.MIMETYPE, cur.mimetype))
    => /\ FieldScoped(result)
       /\ result.message = cfg.WRONG_TYPE_MESSAGE
       /\ result.errors[1].message = cfg.WRONG_TYPE_MESSAGE
       /\ cur.path \in issued
       /\ (cur.path \in unlinks \/ cur.path \notin DOMAIN disk \/ unlinkErr)
       /\ pathAttr = pathBefore

\* C4 witness: a fetched file of the wrong type was rejected and its unlink
\* has completed.
C4_Witness ==
  pc = "settled" /\ placed /\ ~RegExpTest(cfg.MIMETYPE, cur.mimetype)
    /\ ParsesAsUri(cur.src) /\ cur.path \notin DOMAIN disk /\ ~unlinkErr

C6_NoCleanupKeepsFiles ==
  [][ ~cfg.CLEANUP_IS_ON
        => \A P \in storedPaths :
             (fromPublic(cfg, P) \in DOMAIN disk /\ fromPublic(cfg, P) \notin unlinks)
               => fromPublic(cfg, P) \notin unlinks' ]_vars

\* the unlinks the cleanup of stored path P is to issue
CleanupPaths(P) ==
  {fromPublic(cfg, P)} \cup
  { pathWithSize(fromPublic(cfg, P), n) : n \in SizeNames(cfg) }

\* C7: a null field value after a prior resolved attach sets the path
\* attribute to null and, with cleanup on, issues the deletion of the
\* previously stored original and of all its derivatives, from the path
\* read before it is cleared.
C7_NullClears ==
  (pc = "settled" /\ file = JSNull /\ pathBefore # Null
     /\ pathBefore \in storedPaths)
    => /\ pathAttr = Null
       /\ cfg.CLEANUP_IS_ON => CleanupPaths(pathBefore) \subseteq issued

\* C8: for a string field value, a malformed URL, an error of the HEAD
\* request or a HEAD status outside [200, 400) rejects the hook with a
\* ValidationError of exactly one item whose path is the virtual attribute.
C8_UrlFailureIsFieldScoped ==
  (pc = "settled" /\ file.t = "string")
    => /\ ~ParsesAsUri(file.v) => FieldScoped(result)
       /\ at = "head" => FieldScoped(result)

\* C9: every I/O failure of the attach chain (move, directory creation,
\* fetch, measure, derivative write) reaches the caller as a ValidationError
\* carrying the field name.
C9_IOFailureIsFieldScoped ==
  (pc = "settled" /\ at \in {"move", "head", "get", "getSize", "write"})
    => FieldScoped(result)

\* C10: for a descriptor or URL value the hook's promise resolves only after
\* the file is at its planned path, the path attribute is set (and, post
\* create, the secondary update has completed) and every derivative write
\* has completed.
C10_ResolvesAfterEverything ==
  (pc = "settled" /\ result = OK /\ started = 1)
    => /\ placed
       /\ pathAttr = publicPath(cfg, cur.path)
       /\ afterCreate => (updates = 1 /\ dbPath = pathAttr)
       /\ (cfg.SIZES # Null /\ isImage(cur.mimetype))
            => (written = SizeNames(cfg) /\ joined(writes, ops))

\* C10 witness: a post-create attach with two derivatives has resolved.
C10_Witness ==
  pc = "settled" /\ result = OK /\ started = 1 /\ afterCreate
    /\ Cardinality(written) = 2

\* a path was planned for an instance of the only model the field was added to
Planned == lab.kind = "plan" /\ lab.out # Null

SoleModel == lab.registered = <<lab.model>>

\* <basePath>/<pluralized model>
ModelFolder(c, m) == c.BASE_PATH \o <<"/">> \o pluralize(m)

\* /<pluralized field>
FieldSegment(c) == <<"/">> \o pluralize(c.VIRTUAL_ATTRIBUTE_NAME)

HasExtension(name) == \E i \in Positions(name, ".") : 1 < i /\ i < Len(name)

\* the suffix between the unchanged base name and the unchanged extension
SuffixedName(name, hash) ==
  IF HasExtension(name) THEN pathWithSize(name, hash)
  ELSE name \o <<"_">> \o hash

RECURSIVE PutAll(_, _)
\* a disk after all of a set of files were written
PutAll(d, files) ==
  IF files = {} THEN d
  ELSE LET f == CHOOSE f \in files : TRUE
       IN  PutAll(Put(d, f.path, f.content), files \ {f})

\* the disk after the invocation on record i ran alone, start to end, on d
PairRun(i, d) ==
  LET c == lab.field
      new == PairNew(c, lab.keys, i)
      moved == IF lab.urls[i] THEN Put(d, new, Content(i, Null))
               ELSE Put(Remove(d, PairTmp(i)), new, d[PairTmp(i)])
      gone == cleanup(c, lab.old[i]).paths
      kept == [q \in DOMAIN moved \ gone |-> moved[q]]
  IN  PutAll(kept, { [path |-> pathWithSize(new, n), content |-> Content(i, n)]
                       : n \in PairSizes(c) })

\* both invocations have resolved and no file operation is pending
PairSettled ==
  /\ lab.kind = "pair"
  /\ lab.pcs = <<"done", "done">>
  /\ lab.unlinks = {} /\ lab.writes = {}

\* C11: two hook invocations on two different records, with grouping by the
\* instance key, touch disjoint sets of paths, and when both have finished
\* the files on disk and the two path attributes are those of running one
\* invocation after the other, in either order, whatever the interleaving.
C11_RecordsIndependent ==
  lab.kind = "pair" =>
    /\ lab.touched[1] \cap lab.touched[2] = {}
    /\ PairSettled =>
         /\ lab.disk = PairRun(2, PairRun(1, lab.disk0))
         /\ lab.disk = PairRun(1, PairRun(2, lab.disk0))
         /\ \A i \in Pair :
              lab.paths[i] = publicPath(lab.field, PairNew(lab.field, lab.keys, i))

\* C12: a field added to model A and then to model B stores the files of
\* instances of A under A's pluralized model folder and those of B under
\* B's.
C12_EachModelItsFolder ==
  Planned => StartsWith(lab.out, ModelFolder(lab.field, lab.model) \o <<"/">>)

\* C14: with grouping by attribute, the planned path of a file is
\* <basePath>/<models>/<fields>/<key>/<file name> under the default folder
\* key, and <basePath>/<models>/<fields>/<name>_<suffix>.<ext> with
\* folderKey: null: base name and extension unchanged, for every file name.
C14_PlannedPath ==
  (Planned /\ SoleModel /\ lab.field.GROUP_BY_ATTRIBUTE)
    => LET c == lab.field
           folder == ModelFolder(c, lab.model) \o FieldSegment(c)
           name == nameFromUrl(lab.tmp)
       IN  IF c.FOLDER_KEY # Null
           THEN lab.out = folder \o <<"/">> \o lab.key \o <<"/">> \o name
           ELSE lab.out = folder \o <<"/">> \o SuffixedName(name, lab.hash)

\* C15, as the specification states it: the key segment is in the planned
\* path exactly when the folder key is non-null, the field segment exactly
\* when groupByAttribute is true, and the file name is suffixed exactly
\* when there is no key segment.
C15_TogglesIndependent ==
  (Planned /\ SoleModel)
    => LET c == lab.field
       IN  /\ dirName(lab.out) =
                ModelFolder(c, lab.model)
                  \o (IF c.GROUP_BY_ATTRIBUTE THEN FieldSegment(c) ELSE <<>>)
                  \o (IF c.FOLDER_KEY # Null THEN <<"/">> \o lab.key ELSE <<>>)
           /\ (nameFromUrl(lab.out) = nameFromUrl(lab.tmp)) <=> (c.FOLDER_KEY # Null)

\* C15, amended: the field segment is in the planned path exactly when
\* groupByAttribute is true, but the key segment only when the folder key
\* is non-null and groupByAttribute is true; in every other case the file
\* goes to the model path itself under a suffixed name.
C15_KeyNeedsAttributeGrouping ==
  (Planned /\ SoleModel)
    => LET c == lab.field
           keyed == c.FOLDER_KEY # Null /\ c.GROUP_BY_ATTRIBUTE
       IN  /\ dirName(lab.out) =
                ModelFolder(c, lab.model)
                  \o (IF c.GROUP_BY_ATTRIBUTE THEN FieldSegment(c) ELSE <<>>)
                  \o (IF keyed THEN <<"/">> \o lab.key ELSE <<>>)
           /\ (nameFromUrl(lab.out) = nameFromUrl(lab.tmp)) <=> keyed

\* C15 witness: a path was planned with groupByAttribute: false and the
\* default folder key.
C15_Witness ==
  Planned /\ SoleModel /\ ~lab.field.GROUP_BY_ATTRIBUTE
    /\ lab.field.FOLDER_KEY = DefaultFolderKey

\* C16: with groupByAttribute: false and the default folder key a file
\* <name>.<ext> is stored directly in the model folder, as
\* /u/<models>/<name>_<suffix>.<ext>.
C16_UngroupedGoesToModelFolder ==
  (Planned /\ SoleModel /\ ~lab.field.GROUP_BY_ATTRIBUTE
     /\ lab.field.FOLDER_KEY = DefaultFolderKey
     /\ HasExtension(nameFromUrl(lab.tmp)))
    => publicPath(lab.field, lab.out) =
         <<"/", "u", "/">> \o pluralize(lab.model) \o <<"/">>
           \o SuffixedName(nameFromUrl(lab.tmp), lab.hash)

\* C16 witness: the file a.g of an instance of model m was planned with
\* groupByAttribute: false.
C16_Witness ==
  Planned /\ SoleModel /\ ~lab.field.GROUP_BY_ATTRIBUTE
    /\ lab.field.FOLDER_KEY = DefaultFolderKey
    /\ lab.model = ModelName /\ nameFromUrl(lab.tmp) = NameA

\* q consists of digits only
IsDigits(q) == \A i \in 1..Len(q) : q[i] \in Digits

\* C18: parseSize never fails; the width is the leading run of digits
\* (absent if none), the height the run of digits after an optional "x"
\* (absent if none), the options the rest of the text, unmodified.  A bare
\* number N gives width N and nothing else, "xH" gives height H and no
\* width.
C18_ParseSize ==
  (lab.kind = "size" /\ lab.done)
    => LET r == lab.out
           str == lab.str
           w == Len(r.width)
           x == Len(str) - w - Len(r.height) - Len(r.options)
       IN  /\ IsDigits(r.width) /\ IsDigits(r.height)
           /\ r.width = SubSeq(str, 1, w)
           /\ (w < Len(str) => str[w + 1] \notin Digits)
           /\ x \in {0, 1}
           /\ (x = 1) <=> (w < Len(str) /\ str[w + 1] = "x")
           /\ r.height = SubSeq(str, w + x + 1, w + x + Len(r.height))
           /\ (r.options # Null => r.options[1] \notin Digits)
           /\ r.width \o (IF x = 1 THEN <<"x">> ELSE <<>>) \o r.height \o r.options = str
           /\ (IsDigits(str) => r = [width |-> str, height |-> Null, options |-> Null])
           /\ (str # Null /\ str[1] = "x" /\ IsDigits(Tail(str)))
                => r = [width |-> Null, height |-> Tail(str), options |-> Null]

\* C18 witness: "x300" was parsed, and gave the height 300.
C18_Witness ==
  lab.kind = "size" /\ lab.done /\ lab.str = <<"x", "3", "0", "0">>
    /\ lab.out.height = <<"3", "0", "0">>

IOFailureSteps == {"move", "head", "get", "update", "getSize", "write"}

\* C17: a size descriptor may be a number, a string or an object
\* { size, quality }: an image that was placed and has the right type gets
\* every configured derivative, whatever the shapes of the descriptors,
\* unless some I/O fails; accessor and cleanup handle every name; for a
\* number or string descriptor the quality is 100.
C17_DescriptorShapes ==
  cfg.SIZES # Null
    => /\ (pc = "settled" /\ placed /\ isImage(cur.mimetype)
             /\ RegExpTest(cfg.MIMETYPE, cur.mimetype) /\ at \notin IOFailureSteps)
            => (result = OK /\ written = SizeNames(cfg))
       /\ \A i \in 1..Len(cfg.SIZES) :
            cfg.SIZES[i].t \in {"number", "string"}
              => resizeQuality(cfg.SIZES[i]) = 100

\* C20: when the hook rejects at any step of the attach chain, no partial
\* state is retained: the path attribute of the instance is what it was
\* before the invocation, the persisted path of a just created row is still
\* empty, and no unlink of the previously stored original or of a
\* derivative of it was issued.
C20_NoPartialState ==
  (pc = "settled" /\ result # OK /\ started = 1)
    => /\ pathAttr = pathBefore
       /\ afterCreate => dbPath = Null
       /\ pathBefore # Null => issued \cap CleanupPaths(pathBefore) = {}

\* the matcher accepts an image type
AcceptsImages(mimetype) == RegExpTest(mimetype.v, PNG)

\* C19: a configuration with crop or sizes and a matcher that does not
\* accept image types, or with an option of the wrong type, throws at
\* construction: a field that was constructed has options of the declared
\* types and, if crop or sizes is set, a matcher that accepts image types.
C19_ConstructorRejects ==
  (lab.kind = "new" /\ lab.done /\ ~lab.threw)
    => /\ optionsValidated(lab.options)
       /\ (truthy(lab.options.crop) \/ truthy(lab.options.sizes))
            => AcceptsImages(lab.options.mimetype)

\* the file an attach has just stored and its derivatives
NewPaths ==
  {cur.path} \cup { pathWithSize(cur.path, n) : n \in SizeNames(cfg) }

\* C21: in an attach with cleanup on, a file of the wrong type stops the
\* attach before any cleanup and before the path is set; otherwise the
\* cleanup is issued for the path the attribute held before it is
\* overwritten, and none of the deletions issued names the newly stored file
\* or a derivative of it, whatever the old and the new file names.
C21_CleanupSparesNewFile ==
  (cfg.CLEANUP_IS_ON /\ placed)
    => IF ~RegExpTest(cfg.MIMETYPE, cur.mimetype)
       THEN issued = {cur.path} /\ pathAttr = pathBefore
       ELSE /\ pathBefore # Null
              => (fromPublic(cfg, pathBefore) \in issued \/ at = "cleanup")
          /\ issued \cap NewPaths = {}

\* C22: the field value of the instance is the marker { updated: true } only
\* once the attach has succeeded as a whole: when the hook of an operation
\* that started a move or a download has rejected, the field still holds the
\* caller's descriptor or URL string.
C22_MarkerOnlyOnSuccess ==
  (pc = "settled" /\ result # OK /\ started = 1)
    => file.t \in {"file", "string"}

\* C23: download issues the HEAD request before anything else; with a HEAD
\* status outside [200, 400) it rejects, having created no directory, issued
\* no GET and opened no local file; otherwise it creates the directory of
\* the target, streams the GET into the target, and resolves with the target
\* path and the content-type of the HEAD response only after the write
\* stream has closed.
C23_DownloadProtocol ==
  lab.kind = "download" =>
    /\ lab.log # <<>> => lab.log[1] = "HEAD"
    /\ (lab.status # 0 /\ (lab.status < 200 \/ lab.status >= 400))
         => /\ lab.pc = "rejected"
            /\ lab.out.name = "string"
            /\ lab.log = <<"HEAD">> /\ lab.dirs = lab.dirs0 /\ lab.disk = <<>>
    /\ (lab.pc = "rejected" \/ lab.pc = "head" \/ lab.pc = "called")
         => (lab.dirs = lab.dirs0 /\ lab.disk = <<>>)
    /\ lab.pc \in {"get", "hung", "resolved"}
         => (dirName(lab.path) \in lab.dirs /\ lab.path \in DOMAIN lab.disk)
    /\ lab.pc = "resolved"
         <=> (lab.log # <<>> /\ lab.log[Len(lab.log)] = "close")
    /\ lab.pc = "resolved"
         => /\ lab.log = <<"HEAD", "mkdirp", "GET", "createWriteStream", "close">>
            /\ lab.out = [mimetype |-> lab.ctype, path |-> lab.path]
            /\ lab.disk[lab.path] = "closed"
            /\ lab.status >= 200 /\ lab.status < 400

\* C23 witness: a download has resolved after a HEAD status of 399, and
\* created the directory of its target.
C23_Witness ==
  lab.kind = "download" /\ lab.pc = "resolved" /\ lab.status = 399
    /\ lab.dirs0 = {} /\ lab.out.mimetype = PNG

\* the names of the derivatives whose write, started by the current
\* operation, is in flight
InFlight(ws) == { w.name : w \in { x \in ws : x.op = ops } }

\* C24: derivative generation starts the write of every configured
\* derivative before any of them is awaited, and joins them: the join
\* resolves only when every write has succeeded, and rejects as soon as one
\* write fails, the sibling writes staying in flight and the derivatives
\* already written staying on disk.
C24_WritesJoined ==
  [][ /\ (pc = "getSize" /\ pc' # "getSize" /\ at' # "getSize")
           => InFlight(writes') = SizeNames(cfg)
      /\ (pc = "resizeAll" /\ pc' # "resizeAll")
           => IF result' = OK
              THEN written' = SizeNames(cfg) /\ InFlight(writes') = {}
              ELSE /\ disk' = disk /\ unlinks' = unlinks
                   /\ \E w \in writes : writes' = writes \ {w} ]_vars

\* C25: every deletion issued by cleanup or destroy is fire-and-forget, for
\* every configuration and every shape of size descriptor: the hook that
\* issues deletions does not throw or reject because of them (a destroy or a
\* null assignment resolves, an attach does not fail in its cleanup), and
\* the completion of an unlink, with or without an error, changes nothing
\* about the hook.
C25_DeletionsNeverFail ==
  [][ /\ at' \in {"destroy", "null"} => result' = OK
      /\ at' # "cleanup"
      /\ (unlinks' # unlinks /\ unlinks' \subseteq unlinks)
           => UNCHANGED <<pc, result, at, file, pathAttr>> ]_vars

\* the descriptor of the derivative named n
Descriptor(n) == cfg.SIZES[CHOOSE i \in 1..Len(cfg.SIZES) : cfg.SIZES[i].name = n]

\* C26: each derivative is produced from the source image with its own size
\* and quality only: the command of a derivative write carries the resize of
\* that derivative and no other, and its quality, wherever the derivative
\* comes in the iteration.
C26_OwnSizeAndQuality ==
  \A w \in writes :
    /\ w.args.resize = <<w.name>>
    /\ w.args.quality = <<resizeQuality(Descriptor(w.name))>>

\* a derivative path was computed for a string path
Derived == lab.kind = "derive" /\ lab.done /\ lab.value.t = "string"

\* C27: derivative generation never writes to the original stored file: for
\* every stored path P, with or without an extension, with or without dots
\* in directory names, and every derivative name N, the derivative path
\* differs from P, lies in the directory of P, and differs from the
\* derivative path of every other name M.
C27_DerivativeApart ==
  Derived
    => /\ ~lab.threw
       /\ lab.first # lab.value.v
       /\ dirName(lab.first) = dirName(lab.value.v)
       /\ lab.n # lab.m => lab.first # lab.other

\* C28: publicPath strips the public prefix only where the path starts with
\* it and returns the path unchanged otherwise, fromPublic prepends the
\* prefix, and for every planned storage path p, under every configuration
\* of basepath and publicPath, fromPublic(publicPath(p)) = p: the cleanup
\* resolves the persisted path to the file that was stored.
C28_PublicRoundTrip ==
  (lab.kind = "public" /\ lab.done)
    => LET pre == lab.field.PUBLIC_PATH
       IN  /\ IF StartsWith(lab.path, pre) THEN pre \o lab.public = lab.path
              ELSE lab.public = lab.path
           /\ lab.back = pre \o lab.public
           /\ lab.back = lab.path
           /\ destroyFileHook(lab.field, lab.public).paths = {lab.path}

\* the positions at which the extension of the file name of path P starts
ExtensionDots(P) ==
  { d \in Positions(P, ".") :
      /\ 1 < d /\ d < Len(P) /\ P[d - 1] # "/"
      /\ \A k \in (d + 1)..Len(P) : P[k] \notin {".", "/"} }

\* P with the text t inserted before position d
Inserted(P, d, t) == Prefix(P, d - 1) \o t \o Suffix(P, d)

\* C29: for every string path P and every derivative name N the derivative
\* path is a function of P and N, namely P with "_N" inserted immediately
\* before the final ".ext"; applied again with the name M it gives P with
\* "_N_M" before the same extension; for a path that is not a string it
\* throws.
C29_DerivativeNaming ==
  (lab.kind = "derive" /\ lab.done)
    => IF lab.value.t # "string" THEN lab.threw
       ELSE /\ ~lab.threw
            /\ lab.n = lab.m => lab.first = lab.other
            /\ \E d \in ExtensionDots(lab.value.v) :
                 /\ lab.first = Inserted(lab.value.v, d, <<"_">> \o lab.n)
                 /\ lab.again = Inserted(lab.value.v, d,
                                         <<"_">> \o lab.n \o <<"_">> \o lab.m)

\* C30: if every callback and stream event of the I/O the hook has issued
\* fires eventually, the promise of a hook that was invoked settles
\* eventually, for every field value and every I/O outcome, an error of the
\* GET request or of the write stream after a successful HEAD included.
C30_HookSettles == (pc # "idle") ~> (pc = "settled")

RECURSIVE Segments(_)
\* the segments of a path, between its "/"
Segments(path) ==
  IF Positions(path, "/") = {} THEN <<path>>
  ELSE LET i == CHOOSE k \in Positions(path, "/") :
                  \A j \in Positions(path, "/") : k <= j
       IN  <<Prefix(path, i - 1)>> \o Segments(Suffix(path, i + 1))

RECURSIVE Resolved(_, _)
\* the segments the file system resolves a path to: ".." drops the segment
\* before it
Resolved(segs, acc) ==
  IF segs = <<>> THEN acc
  ELSE IF Head(segs) = <<".", ".">>
  THEN Resolved(Tail(segs), IF acc = <<>> THEN acc ELSE SubSeq(acc, 1, Len(acc) - 1))
  ELSE Resolved(Tail(segs), Append(acc, Head(segs)))

\* path names a file or directory inside folder
Under(path, folder) ==
  LET q == Resolved(Segments(path), <<>>)
      f == Resolved(Segments(folder), <<>>)
  IN  Len(f) <= Len(q) /\ SubSeq(q, 1, Len(f)) = f

\* C31: every path the hook creates, moves a file to, writes or unlinks lies
\* under the storage folder planned for the model, <basePath>/<models>, for
\* every file name, every value of the grouping key and every value the
\* path attribute holds when the cleanup runs.
C31_PathsUnderModelFolder ==
  (lab.kind = "safe" /\ lab.done)
    => \A q \in lab.created \cup lab.moved \cup lab.written \cup lab.unlinked :
         Under(q, ModelFolder(lab.field, ModelName))

\* C32: the beforeDestroy hook, with cleanup on and a stored path P, issues
\* the deletion of the original fromPublic(P) and of the derivative of every
\* configured name, and of nothing else; with no stored path it issues
\* nothing.
C32_DestroyDeletesExactly ==
  (pc = "settled" /\ at = "destroy" /\ cfg.CLEANUP_IS_ON)
    => issued = IF pathAttr = Null THEN {} ELSE CleanupPaths(pathAttr)

\* the step in which _attachFile sets the path attribute and the marker
Attaches == file' = Marker /\ file # Marker /\ pc \in {"move", "get"}

\* C33: an attach run from the afterCreate hook issues one instance.update,
\* with the stored path stripped of the public prefix and the options of the
\* hook, and that update is the only one of the operation; an attach run
\* from the beforeUpdate hook issues none: it sets the path attribute of the
\* instance in memory and the row is left to the save that called the hook.
C33_OneSecondaryUpdate ==
  [][ /\ (Attaches /\ afterCreate)
         => /\ updateArgs = NoUpdate
            /\ updateArgs' = [path |-> publicPath(cfg, cur'.path),
                              options |-> options]
            /\ pathAttr' = updateArgs'.path
            /\ pc' = "beforeUpdate" /\ nested'
      /\ (Attaches /\ ~afterCreate)
         => /\ updateArgs' = NoUpdate
            /\ pathAttr' = publicPath(cfg, cur'.path)
            /\ dbPath' = dbPath /\ updates' = updates /\ ~nested'
      /\ (updateArgs' # updateArgs /\ updateArgs' # NoUpdate) => Attaches
      /\ (updates' # updates /\ updates' # 0)
         => /\ afterCreate /\ updates = 0 /\ updates' = 1
            /\ dbPath' = updateArgs.path
      /\ (~afterCreate /\ pc \notin {"idle", "settled"})
         => dbPath' = dbPath /\ updates' = 0
      /\ (afterCreate /\ pc # "settled" /\ pc' = "settled" /\ result' = OK
            /\ file' = Marker)
         => updates' = 1
    ]_vars

\* C33 witness: a create with a transaction has resolved after its one
\* secondary update, which carried the transaction and the stripped path.
C33_Witness ==
  /\ pc = "settled" /\ afterCreate /\ result = OK /\ updates = 1
  /\ options.transaction # Null
  /\ updateArgs = [path |-> pathAttr, options |-> options]
  /\ dbPath = pathAttr /\ pathAttr # Null /\ fromPublic(cfg, pathAttr) # pathAttr

\* what the rectangle is said to be for one property: the dimension times
\* the fraction, the fraction being 1 where the property is absent or not a
\* number and defaults apply
Scaled(d, v, defaults) ==
  IF v.t = "num" THEN (d * v.n) \div 2
  ELSE IF defaults THEN d ELSE NaN

\* C34: _processImage adds a crop to the pipeline exactly when crop is on
\* and the crop attribute of the instance is set; its rectangle is
\* (W*width, H*height, W*x, H*y) for the measured W x H, width and height
\* counting as 1 when absent or not a number; with crop on and no
\* descriptor every derivative is made from the uncropped image.
C34_CropRectangle ==
  (lab.kind = "crop" /\ lab.done)
    => LET c == lab.field
           set == lab.crop.t \notin {"undefined", "null"}
           W == lab.size.width
           H == lab.size.height
       IN  /\ (Len(lab.gmi) = 1) <=> (c.CROP_IS_ON /\ set)
           /\ Len(lab.gmi) \in {0, 1}
           /\ Len(lab.gmi) = 1
                => /\ lab.gmi[1].op = "crop"
                   /\ lab.gmi[1].args =
                        [width |-> Scaled(W, cropProperty(lab.crop, "width"), TRUE),
                         height |-> Scaled(H, cropProperty(lab.crop, "height"), TRUE),
                         x |-> Scaled(W, cropProperty(lab.crop, "x"), FALSE),
                         y |-> Scaled(H, cropProperty(lab.crop, "y"), FALSE)]
           /\ Cardinality(lab.writes) = Len(c.SIZES)
           /\ \A w \in lab.writes : w.first = lab.gmi
           /\ (c.CROP_IS_ON /\ ~set) => \A w \in lab.writes : w.first = << >>

\* a field value of none of the shapes _setFile handles
OtherShape(f) == f \in {Other, Bool, Incomplete}

\* C35: a field value that is not undefined, the processed marker, a
\* string, null or an object with a string path and a string mimetype is
\* ignored: the hook returns at once without an error, starts no file
\* operation, and leaves the files, the path attribute and the field value
\* as they were.
C35_OtherShapeIgnored ==
  [][ (pc \in {"afterCreate", "beforeUpdate"} /\ OtherShape(file) /\ pc' # pc)
        => /\ pc' = "settled" /\ result' = OK
           /\ file' = file /\ pathAttr' = pathAttr /\ dbPath' = dbPath
           /\ disk' = disk /\ dirs' = dirs
           /\ unlinks' = unlinks /\ writes' = writes
           /\ issued' = {} /\ written' = {} /\ ~placed'
           /\ started' = 0 /\ updates' = 0 /\ updateArgs' = NoUpdate
    ]_vars

\* C35 witness: an update of a record with a stored file, cleanup on, has
\* returned from the hook on an object without a mimetype, the stored path
\* and its file still in place.
C35_Witness ==
  /\ pc = "settled" /\ at = "ignored" /\ result = OK
  /\ file = Incomplete /\ ~afterCreate /\ cfg.CLEANUP_IS_ON
  /\ pathAttr # Null /\ fromPublic(cfg, pathAttr) \in DOMAIN disk
  /\ issued = {}

====
